---- MODULE Spec2Model ----
(***************************************************************************)
(* Watchtower logger: identity resolution against the users/infractions    *)
(* store, the per-attachment evidence pipeline, the parsing of an offense  *)
(* line, the call to the scoring service and the loop over a paste.        *)
(*                                                                         *)
(* Text is modelled as sequences of one-character strings, so that         *)
(* strip(), isdigit(), re.sub(r"\D", ...) and int() are computed rather    *)
(* than assumed.  A Python int is the digit run without its leading zeros  *)
(* (chat account ids have 17+ digits, beyond 32-bit integers).  Python's   *)
(* None is the empty sequence for text and ids.                            *)
(***************************************************************************)
EXTENDS Integers, Sequences, FiniteSets, TLC

\* ---------------------------------------------------------------- text

Digits == {"0", "1", "2", "3", "4", "5", "6", "7", "8", "9"}

Whitespace == {" "}

None == <<>>

\* str.isdigit(): non-empty and every character a digit
isdigit(s) == Len(s) > 0 /\ \A i \in 1..Len(s) : s[i] \in Digits

Truthy(s) == s # <<>>

RECURSIVE lstrip(_)
lstrip(s) ==
    IF s # <<>> /\ Head(s) \in Whitespace THEN lstrip(Tail(s)) ELSE s

RECURSIVE rstrip(_)
rstrip(s) ==
    IF s # <<>> /\ s[Len(s)] \in Whitespace
    THEN rstrip(SubSeq(s, 1, Len(s) - 1))
    ELSE s

\* str.strip()
strip(s) == rstrip(lstrip(s))

\* re.sub(r"\D", "", s): the digits of s, in order
RECURSIVE only_digits(_)
only_digits(s) ==
    IF s = <<>> THEN <<>>
    ELSE IF Head(s) \in Digits THEN <<Head(s)>> \o only_digits(Tail(s))
    ELSE only_digits(Tail(s))

min_steamid_len == 17

long_enough_strict(s) == Len(s) > min_steamid_len

\* "len(...) >= min_steamid_len"
long_enough(s) == Len(s) >= min_steamid_len

\* int(s) for a digit run: the value, written without leading zeros
RECURSIVE int(_)
int(s) ==
    IF Len(s) > 1 /\ Head(s) = "0" THEN int(Tail(s)) ELSE s

\* truth value of an Optional[int]: None and 0 are both false
TruthyInt(n) == n # None /\ n # <<"0">>

\* re.match(r"<@!?(?P<id>\d+)>$", s): the id group, or None when no match
mention_id(s) ==
    IF Len(s) >= 4 /\ s[1] = "<" /\ s[2] = "@" /\ s[Len(s)] = ">"
    THEN LET from == IF s[3] = "!" THEN 4 ELSE 3
             body == SubSeq(s, from, Len(s) - 1)
         IN  IF isdigit(body) THEN body ELSE None
    ELSE None

UnknownSteam == <<"U", "n", "k", "n", "o", "w", "n">>

\* ---------------------------------------------------------------- store

\* users rows: steamid (text, None when NULL), discordid (int, None when NULL),
\* ign (string, "" when NULL), total_points.  fetchone() is <<>> or <<row>>.
fetchone(rows) == IF rows = <<>> THEN <<>> ELSE <<Head(rows)>>

users_by_discordid(users, d) ==
    LET Match(r) == r.discordid = d IN fetchone(SelectSeq(users, Match))

users_by_steamid(users, s) ==
    LET Match(r) == r.steamid = s IN fetchone(SelectSeq(users, Match))

\* SELECT COUNT(*) FROM infractions WHERE steamid=? [AND reason=?]
count_by_steamid(infractions, s) ==
    LET Match(r) == r.steamid = s IN Len(SelectSeq(infractions, Match))

count_by_steamid_reason(infractions, s, reason) ==
    LET Match(r) == r.steamid = s /\ r.reason = reason
    IN  Len(SelectSeq(infractions, Match))

\* SELECT COUNT(*) FROM infractions WHERE discordid=? [AND reason=?]
count_by_discordid(infractions, d) ==
    LET Match(r) == r.discordid = d IN Len(SelectSeq(infractions, Match))

count_by_discordid_reason(infractions, d, reason) ==
    LET Match(r) == r.discordid = d /\ r.reason = reason
    IN  Len(SelectSeq(infractions, Match))

\* ---------------------------------------------------------------- name lookup

\* bot.fetch_user(id): it raises, or yields an object that may carry a
\* display_name and may carry a name ("" stands for a missing/None value).
FetchOutcomes ==
    { [raises |-> TRUE,  display_name |-> "",    has_name |-> FALSE, name |-> ""],
      [raises |-> FALSE, display_name |-> "Dee", has_name |-> TRUE,  name |-> "dee"],
      [raises |-> FALSE, display_name |-> "",    has_name |-> TRUE,  name |-> "dee"],
      [raises |-> FALSE, display_name |-> "",    has_name |-> FALSE, name |-> ""] }

_safe_fetch_user_name(f) ==
    IF f.raises THEN "Unresolved User"
    ELSE IF f.display_name # "" THEN f.display_name
    ELSE IF f.has_name THEN f.name
    ELSE "Unknown"

\* parser.resolve_offender, "if fetch_user: try: ... except: ...": the same
\* lookup written inline, with "Unresolved User" as the default of a missing name
parser_fetch_user_name(f) ==
    IF f.raises THEN "Unresolved User"
    ELSE IF f.display_name # "" THEN f.display_name
    ELSE IF f.has_name THEN f.name
    ELSE "Unresolved User"

\* ---------------------------------------------------------------- resolve_offender

\* The failure pattern of one call: which store queries raise, and what the
\* name lookup does.
Envs ==
    [failUsers : BOOLEAN, failInfr : BOOLEAN, failPoints : BOOLEAN,
     fetch : FetchOutcomes]

\* "if row: a, ign_candidate = row; if a: ...; if ign_candidate: ign = ..."
adopt_ign(row, ign) ==
    IF row # <<>> /\ row[1].ign # "" THEN row[1].ign ELSE ign

\* users row found by chat id: adopt its steamid when it has one
adopt_steamid(row, steamid) ==
    IF row # <<>> /\ Truthy(row[1].steamid) THEN row[1].steamid ELSE steamid

\* lookup keyed by steamid (long digit run, or digits stripped out of a
\* non-numeric token): discord id and name come from the users row
by_steamid(steamid, users, env, name) ==
    LET row  == IF env.failUsers THEN <<>> ELSE users_by_steamid(users, steamid)
        link == row # <<>> /\ TruthyInt(row[1].discordid)
    IN  [steamid      |-> steamid,
         discord_id   |-> IF link THEN row[1].discordid ELSE None,
         discord_name |-> IF link THEN name ELSE "Unknown",
         ign          |-> adopt_ign(row, "Unknown"),
         fetched      |-> link]

\* lines 137-206: the identity the token resolves to, before repeat detection;
\* name is what the name lookup of this call yields when it is attempted
identify(identifier, users, env, name) ==
    LET id_str == strip(identifier)
        m      == mention_id(id_str)
        nobody == [steamid |-> None, discord_id |-> None,
                   discord_name |-> "Unknown", ign |-> "Unknown",
                   fetched |-> FALSE]
    IN  IF m # None
        THEN \* mention form: the users lookup has its own handler, the name
             \* lookup follows it in every case
             LET discord_id == int(m)
                 row == IF env.failUsers THEN <<>>
                        ELSE users_by_discordid(users, discord_id)
             IN  [steamid      |-> adopt_steamid(row, None),
                  discord_id   |-> discord_id,
                  discord_name |-> name,
                  ign          |-> adopt_ign(row, "Unknown"),
                  fetched      |-> TRUE]
        ELSE IF isdigit(id_str)
        THEN IF long_enough(id_str)
             THEN by_steamid(id_str, users, env, name)
             ELSE \* short numeric: one handler around lookup AND name fetch
                  LET discord_id == int(id_str)
                      row == users_by_discordid(users, discord_id)
                  IN  IF env.failUsers
                      THEN [nobody EXCEPT !.discord_id = discord_id]
                      ELSE [steamid      |-> adopt_steamid(row, None),
                            discord_id   |-> discord_id,
                            discord_name |-> name,
                            ign          |-> adopt_ign(row, "Unknown"),
                            fetched      |-> TRUE]
        ELSE LET digits == only_digits(id_str)
             IN  IF Truthy(digits) /\ long_enough(digits)
                 THEN by_steamid(digits, users, env, name)
                 ELSE nobody

\* "row and row[0] and int(row[0]) > 0" for SELECT total_points FROM users
has_points(row) == row # <<>> /\ row[1].total_points > 0

count_positive_raise_is_hit(env, n) == env.failInfr \/ n > 0

\* one COUNT(*) query inside its handler: a raising query leaves repeat False
count_positive(env, n) == ~env.failInfr /\ n > 0

\* lines 208-257: repeat-offender detection for the identity found so far
detect_repeat(who, rule, users, infractions, env) ==
    LET by_steam == Truthy(who.steamid) /\ who.steamid # UnknownSteam
        by_chat  == ~by_steam /\ TruthyInt(who.discord_id)
    IN  IF Truthy(rule) /\ Truthy(strip(rule))
        THEN LET rule_check == strip(rule)
             IN  IF by_steam
                 THEN count_positive(env,
                          count_by_steamid_reason(infractions, who.steamid, rule_check))
                 ELSE IF by_chat
                 THEN count_positive(env,
                          count_by_discordid_reason(infractions, who.discord_id, rule_check))
                 ELSE FALSE
        ELSE IF by_steam
             THEN ~env.failInfr
                  /\ (\/ count_by_steamid(infractions, who.steamid) > 0
                      \/ (~env.failPoints
                          /\ has_points(users_by_steamid(users, who.steamid))))
             ELSE IF by_chat
             THEN ~env.failInfr
                  /\ (\/ count_by_discordid(infractions, who.discord_id) > 0
                      \/ (~env.failPoints
                          /\ has_points(users_by_discordid(users, who.discord_id))))
             ELSE FALSE

\* lines 262-266: last resort, digits of the original identifier
last_resort(steamid, identifier) ==
    IF Truthy(steamid) THEN steamid
    ELSE LET digits == only_digits(identifier)
         IN  IF Truthy(digits) /\ long_enough(digits)
             THEN digits ELSE None

\* the record returned at the end of both implementations
offender(who, repeat, identifier) ==
    LET steamid == last_resort(who.steamid, identifier)
    IN  [steamid         |-> IF Truthy(steamid) THEN steamid ELSE UnknownSteam,
         discord_id      |-> who.discord_id,
         discord_name    |-> IF who.discord_name # "" THEN who.discord_name
                             ELSE "Unknown",
         ign             |-> IF who.ign # "" THEN who.ign ELSE "Unknown",
         repeat_offender |-> repeat]

\* parser.resolve_offender, called with a fetch_user callable
parser_resolve_offender(identifier, rule, users, infractions, env) ==
    LET who == identify(identifier, users, env, parser_fetch_user_name(env.fetch))
    IN  offender(who, detect_repeat(who, rule, users, infractions, env), identifier)

\* watchtower_logger.resolve_offender
resolve_offender(identifier, rule, users, infractions, env) ==
    LET who     == identify(identifier, users, env, _safe_fetch_user_name(env.fetch))
        repeat  == detect_repeat(who, rule, users, infractions, env)
        steamid == last_resort(who.steamid, identifier)
    IN  [steamid         |-> IF Truthy(steamid) THEN steamid ELSE UnknownSteam,
         discord_id      |-> who.discord_id,
         discord_name    |-> IF who.discord_name # "" THEN who.discord_name
                             ELSE "Unknown",
         ign             |-> IF who.ign # "" THEN who.ign ELSE "Unknown",
         repeat_offender |-> repeat]

\* ---------------------------------------------------------------- recording

\* log_from_resolve, line 683: parsed["rule"] or parsed["notes"] or f"Points:{points}"
reason_to_record_notes_first(rule, notes, points) ==
    IF Truthy(notes) THEN notes
    ELSE IF Truthy(rule) THEN rule
    ELSE <<"P", "o", "i", "n", "t", "s", ":">> \o points

reason_to_record(rule, notes, points) ==
    IF Truthy(rule) THEN rule
    ELSE IF Truthy(notes) THEN notes
    ELSE <<"P", "o", "i", "n", "t", "s", ":">> \o points

\* _record_infraction: one INSERT; the handler swallows a failing INSERT
_record_infraction(infractions, steamid, discord_id, reason, insert_ok) ==
    IF insert_ok
    THEN Append(infractions,
                [steamid |-> steamid, discordid |-> discord_id, reason |-> reason])
    ELSE infractions

\* ---------------------------------------------------------------- evidence

SkipCeiling == 250 * 1024 * 1024

InlineCeiling == 25 * 1024 * 1024

startswith_http(text) ==
    Len(text) >= 4 /\ SubSeq(text, 1, 4) = <<"h", "t", "t", "p">>

upload_bytes_any_status(resp) ==
    IF ~resp.raises /\ Truthy(resp.text) /\ startswith_http(resp.text)
    THEN strip(resp.text) ELSE None

\* CatboxUploader.upload_bytes: one POST; the URL on 200 with a body that
\* starts with "http", None on anything else (an exception included)
upload_bytes(resp) ==
    IF ~resp.raises /\ resp.status = 200 /\ Truthy(resp.text)
       /\ startswith_http(resp.text)
    THEN strip(resp.text) ELSE None

too_large_strict(size) == size # 0 /\ size > SkipCeiling

\* "att.size and att.size >= 250 * 1024 * 1024"
too_large(size) == size # 0 /\ size >= SkipCeiling

fits_inline_inclusive(size) == size # 0 /\ size <= InlineCeiling

\* "att.size and att.size < 25 * 1024 * 1024"
fits_inline(size) == size # 0 /\ size < InlineCeiling

fallback_file_always(att, url, size, to_file_ok) ==
    IF fits_inline(size) /\ to_file_ok THEN att ELSE None

\* lines 386-395: the discord.File built when there is no url, the attachment
\* fits and att.to_file() does not raise
fallback_file(att, url, size, to_file_ok) ==
    IF ~Truthy(url) /\ fits_inline(size) /\ to_file_ok THEN att ELSE None

\* lines 366-400: the entry appended for one attachment
entry_for(att, size, download, resp, to_file_ok) ==
    LET blank == [filename |-> att, url |-> None, fallback_file |-> None]
    IN  IF too_large(size) THEN blank
        ELSE IF download # "ok" THEN blank
        ELSE LET url == upload_bytes(resp)
             IN  [filename |-> att, url |-> url,
                  fallback_file |-> fallback_file(att, url, size, to_file_ok)]

after_attachment_abort(pos, download, last) ==
    IF download # "ok" THEN last + 1 ELSE pos + 1

\* "results.append(entry); continue": the loop goes on with the next attachment
after_attachment(pos, download, last) == pos + 1

\* the attachments of message m, in the message's own order
attachments_of(m, count) == [i \in 1..count |-> <<m, i>>]

\* channel.history(limit=None, oldest_first=False): newest message first.
\* history[m] is the number of attachments of the m-th oldest message.
RECURSIVE newest_first(_, _)
newest_first(history, m) ==
    IF m = 0 THEN <<>>
    ELSE attachments_of(m, history[m]) \o newest_first(history, m - 1)

\* ---------------------------------------------------------------- parse_offender_line

\* "\d{1,30}"
MaxIdDigits == 30

take(s, n) == SubSeq(s, 1, n)

drop(s, n) == SubSeq(s, n + 1, Len(s))

\* length of the run of digits s starts with: what a greedy \d* consumes
RECURSIVE digit_run(_)
digit_run(s) ==
    IF s # <<>> /\ Head(s) \in Digits THEN 1 + digit_run(Tail(s)) ELSE 0

\* index of the first "|" of s at or after i, 0 when there is none
RECURSIVE find_pipe(_, _)
find_pipe(s, i) ==
    IF i > Len(s) THEN 0
    ELSE IF s[i] = "|" THEN i
    ELSE find_pipe(s, i + 1)

RECURSIVE split_every(_, _)
split_every(s, maxsplit) ==
    LET p == find_pipe(s, 1)
    IN  IF p = 0 THEN <<s>>
        ELSE <<take(s, p - 1)>> \o split_every(drop(s, p), maxsplit)

\* s.split("|", maxsplit)
RECURSIVE split(_, _)
split(s, maxsplit) ==
    LET p == find_pipe(s, 1)
    IN  IF maxsplit = 0 \/ p = 0 THEN <<s>>
        ELSE <<take(s, p - 1)>> \o split(drop(s, p), maxsplit - 1)

match_mention_no_bang(s) ==
    IF Len(s) >= 2 /\ s[1] = "<" /\ s[2] = "@"
    THEN LET n == digit_run(drop(s, 2))
         IN  IF n >= 1 /\ Len(s) > 2 + n /\ s[2 + n + 1] = ">"
             THEN 2 + n + 1 ELSE 0
    ELSE 0

\* "<@!?\d+>" at the start of s: the length matched, 0 when it does not match
match_mention(s) ==
    IF Len(s) >= 2 /\ s[1] = "<" /\ s[2] = "@"
    THEN LET from == IF Len(s) >= 3 /\ s[3] = "!" THEN 3 ELSE 2
             n    == digit_run(drop(s, from))
         IN  IF n >= 1 /\ Len(s) > from + n /\ s[from + n + 1] = ">"
             THEN from + n + 1 ELSE 0
    ELSE 0

\* "(?P<identifier><@!?\d+>|\d{1,30})" at the start of s: the length matched
match_identifier(s) ==
    LET m == match_mention(s)
        n == digit_run(s)
    IN  IF m > 0 THEN m
        ELSE IF n > MaxIdDigits THEN MaxIdDigits ELSE n

\* parse_offender_line: <<>> for None, else <<the dict>>
parse_offender_line(text) ==
    IF ~Truthy(text) \/ ~Truthy(strip(text)) THEN <<>>
    ELSE LET parts     == split(text, 2)
             left      == strip(parts[1])
             mod_notes == IF Len(parts) > 1 THEN strip(parts[2]) ELSE <<>>
             notes     == IF Len(parts) > 2 THEN strip(parts[3]) ELSE <<>>
             s         == lstrip(left)
             n         == match_identifier(s)
             after_id  == lstrip(drop(s, n))
             p         == digit_run(after_id)
             points    == take(after_id, p)
         IN  IF n = 0 THEN <<>>
             ELSE <<[identifier |-> take(s, n),
                     points     |-> IF Truthy(points) THEN points ELSE <<"0">>,
                     rule       |-> strip(lstrip(drop(after_id, p))),
                     mod_notes  |-> mod_notes,
                     notes      |-> notes]>>

\* ---------------------------------------------------------------- apply_points

\* POINTS_API_TOKEN when the environment does not set it
Placeholder == "CHANGE_ME"

\* "for attempt in range(3)"
MaxAttempts == 3

TransientStatuses_with_500 == {429, 500, 502, 503, 504}

\* "if resp.status in (429, 502, 503, 504)"
TransientStatuses == {429, 502, 503, 504}

Success(response) == [success |-> TRUE, response |-> response]

Failure == [success |-> FALSE, response |-> None]

short_circuit_token_first(steamid, points, token) ==
    IF token = "" \/ token = Placeholder THEN <<Failure>>
    ELSE IF points <= 0 \/ ~Truthy(steamid) \/ steamid = UnknownSteam
    THEN <<Success(None)>>
    ELSE <<>>

short_circuit_any_token(steamid, points, token) ==
    IF points <= 0 \/ ~Truthy(steamid) \/ steamid = UnknownSteam
    THEN <<Success(None)>>
    ELSE IF token = "" THEN <<Failure>>
    ELSE <<>>

\* lines 483-488: the two returns that precede any request; <<>> when the
\* call goes on to the POST loop
short_circuit(steamid, points, token) ==
    IF points <= 0 \/ ~Truthy(steamid) \/ steamid = UnknownSteam
    THEN <<Success(None)>>
    ELSE IF token = "" \/ token = Placeholder THEN <<Failure>>
    ELSE <<>>

\* One POST and what the loop body does with it.  An outcome o says where the
\* body raised ("post": session.post itself, "text": await resp.text(),
\* "json": await resp.json(), "no": nowhere), the status received, and the
\* value resp.json() yields.  ret is <<>> or <<the dict returned>>, sleep is
\* <<>> or <<the seconds slept>>.
after_post(n, o) ==
    IF o.raises = "post" \/ o.raises = "text"
    THEN [ret |-> <<>>, sleep |-> <<2 ^ n>>]
    ELSE IF o.status = 200
    THEN [ret   |-> <<Success(IF o.raises = "json" THEN None ELSE o.data)>>,
          sleep |-> <<>>]
    ELSE IF o.status \in TransientStatuses
    THEN [ret |-> <<>>, sleep |-> <<2 ^ n>>]
    ELSE [ret |-> <<Failure>>, sleep |-> <<>>]

\* the whole call, given the outcomes its POSTs would meet, in order
RECURSIVE post_loop(_, _)
post_loop(n, outs) ==
    IF n >= MaxAttempts THEN Failure
    ELSE LET step == after_post(n, outs[n + 1])
         IN  IF step.ret # <<>> THEN step.ret[1]
             ELSE post_loop(n + 1, outs)

apply_points(steamid, points, token, outs) ==
    LET early == short_circuit(steamid, points, token)
    IN  IF early # <<>> THEN early[1] ELSE post_loop(0, outs)

\* ---------------------------------------------------------------- log_from_resolve

DigitChars == <<"0", "1", "2", "3", "4", "5", "6", "7", "8", "9">>

DigitValue(c) == (CHOOSE i \in 1..10 : DigitChars[i] = c) - 1

\* int(parsed["points"]) as a number
RECURSIVE number(_)
number(s) ==
    IF s = <<>> THEN 0
    ELSE 10 * number(SubSeq(s, 1, Len(s) - 1)) + DigitValue(s[Len(s)])

\* "[l.strip() for l in paste_msg.content.splitlines() if l.strip()]"
RECURSIVE stripped_lines(_)
stripped_lines(raw) ==
    IF raw = <<>> THEN <<>>
    ELSE IF Truthy(strip(Head(raw)))
    THEN <<strip(Head(raw))>> \o stripped_lines(Tail(raw))
    ELSE stripped_lines(Tail(raw))

\* links per message ("range(0, len(link_msgs), 10)")
LinksPerMessage == 10

\* ATTACHMENT_BATCH_SIZE when the environment does not set it
ATTACHMENT_BATCH_SIZE == 10

\* number of slices "range(0, n, size)" walks through
chunks(n, size) == (n + size - 1) \div size

\* lines 689-718: the messages the evidence block sends to the thread, in order
evidence_messages(url, atts) ==
    LET HasUrl(a)  == Truthy(a.url)
        HasFile(a) == Truthy(a.fallback_file)
        links == Len(SelectSeq(atts, HasUrl))
        files == Len(SelectSeq(atts, HasFile))
    IN  (IF Truthy(url) THEN <<"transcript">> ELSE <<>>)
        \o [i \in 1..chunks(links, LinksPerMessage) |-> "links"]
        \o [i \in 1..chunks(files, ATTACHMENT_BATCH_SIZE) |-> "files"]

\* ---------------------------------------------------------------- inputs

D17 == <<"7", "6", "5", "6", "1", "1", "9", "8", "0", "0", "0", "0", "0", "0", "0", "0", "1">>

S17 == <<"7", "6", "5", "6", "1", "1", "9", "8", "0", "0", "0", "0", "0", "0", "0", "0", "2">>

IdMention     == <<"<", "@", "4", "2", ">">>
IdMentionLong == <<"<", "@", "!">> \o D17 \o <<">">>
IdSteam       == D17
IdShort       == <<"0", "4", "2">>
IdZero        == <<"0">>
IdText        == <<"i", "d", ":">> \o D17

Identifiers == {IdMention, IdMentionLong, IdSteam, IdShort, IdZero, IdText}

RuleSpam == <<"S", "p", "a", "m">>

Rules == {<<>>, <<" ">>, RuleSpam}

Notes == {<<>>, <<"n">>}

Chat42 == <<"4", "2">>

\* the users table is only read: a few tables the store can hold
UsersTables ==
    { <<>>,
      <<[steamid |-> D17, discordid |-> Chat42, ign |-> "Ace", total_points |-> 0]>>,
      <<[steamid |-> None, discordid |-> Chat42, ign |-> "", total_points |-> 3]>>,
      <<[steamid |-> S17, discordid |-> D17, ign |-> "Bo", total_points |-> 2]>> }

\* infractions left by earlier pastes
InfractionTables ==
    { <<>>,
      <<[steamid |-> D17, discordid |-> None, reason |-> RuleSpam]>>,
      <<[steamid |-> UnknownSteam, discordid |-> Chat42, reason |-> RuleSpam],
        [steamid |-> UnknownSteam, discordid |-> Chat42, reason |-> <<"n">>]>> }

\* inserts one run may add
MaxInserts == 1

\* messages in a ticket history, and attachments in the whole history
MaxMsgs == 2

MaxAtts == 2

RECURSIVE Sum(_)
Sum(h) == IF h = <<>> THEN 0 ELSE Head(h) + Sum(Tail(h))

Histories ==
    { h \in UNION { [1..n -> 0..MaxAtts] : n \in 0..MaxMsgs } : Sum(h) <= MaxAtts }

Sizes == {0, 1, InlineCeiling, SkipCeiling}

UrlBody == <<"h", "t", "t", "p", ":", "f">>

Bodies == {<<>>, UrlBody, UrlBody \o <<" ">>, <<"e", "r", "r">>}

UploadResponses ==
    [raises : {FALSE}, status : {200, 500}, text : Bodies]
    \cup {[raises |-> TRUE, status |-> 0, text |-> <<>>]}

Downloads == {"ok", "status", "raises"}

Ones(n) == [i \in 1..n |-> "1"]

\* pieces a pasted line is put together from: leading blanks, an identifier
\* token (well formed or not), a gap, a points run, a gap, a rule, the notes
Leads == {<<>>, <<" ">>}

IdTokens ==
    { IdMention, <<"<", "@", "!", "4", "2", ">">>, IdShort, D17,
      Ones(MaxIdDigits), Ones(MaxIdDigits + 1),
      <<"<", "@", ">">>, <<"<", "@", "4", "2">>, <<"x">>, <<>> }

Gaps == {<<>>, <<" ">>}

PointRuns == {<<>>, <<"5">>, <<"0", "5">>}

RuleTexts == {<<>>, RuleSpam, <<"a", " ", "b">>, <<"7", "u", "p">>}

Tails ==
    { <<>>, <<"|">>, <<"|", " ", "m", " ">>, <<"|", "m", "|", "n">>,
      <<"|", "|", "n">>, <<"|", "m", "|", " ", "n", "|", "o", " ">> }

ParseLines ==
    { lead \o id \o gap1 \o pts \o gap2 \o rule \o tail :
        lead \in Leads, id \in IdTokens, gap1 \in Gaps, pts \in PointRuns,
        gap2 \in Gaps, rule \in RuleTexts, tail \in Tails }

\* HTTP statuses the scoring service may answer with
Statuses == {200, 201, 404, 429, 500, 502, 503, 504}

\* a JSON body of the scoring service, as resp.json() yields it
JsonData == <<[total_points |-> 3, action |-> "ban"]>>

\* what one POST can meet: the request raises; a response arrives and reading
\* its body raises; a 200 arrives whose body is not JSON; a response arrives
\* and is read (its JSON is only looked at on 200: a dict, or JSON null)
AttemptOutcomes ==
    {[raises |-> "post", status |-> 0, data |-> None]}
    \cup {[raises |-> "text", status |-> s, data |-> None] : s \in Statuses}
    \cup {[raises |-> "json", status |-> 200, data |-> None]}
    \cup {[raises |-> "no", status |-> s, data |-> JsonData] : s \in Statuses}
    \cup {[raises |-> "no", status |-> 200, data |-> None]}

Tokens == {"", Placeholder, "secret"}

PointsValues == {-1, 0, 2}

SteamIds == {None, UnknownSteam, D17}

\* answers of the scoring service to the POSTs of one call
Ok200 == [raises |-> "no", status |-> 200, data |-> JsonData]

NotFound404 == [raises |-> "no", status |-> 404, data |-> JsonData]

Busy503 == [raises |-> "no", status |-> 503, data |-> JsonData]

ApiRuns ==
    { <<Ok200, Ok200, Ok200>>, <<NotFound404, Ok200, Ok200>>,
      <<Busy503, Busy503, Busy503>> }

\* lines a moderator may paste: a mention with points, rule and both notes; a
\* bare platform id; a token that is no identifier; a blank line
LineScored == IdMention \o <<" ", "5", " ">> \o RuleSpam \o <<"|", "m", "|", "n">>

LineBare == D17

\* points and a public note, no rule and no staff note
LineNoted == IdMention \o <<" ", "2", "|", "|", "n">>

LineBad == <<"x">>

LineBlank == <<" ">>

RawLines == {LineScored, LineNoted, LineBare \o <<" ">>, LineBad, LineBlank}

\* lines in one paste
MaxLines == 2

Pastes == UNION { [1..n -> RawLines] : n \in 0..MaxLines }

\* what the evidence pipeline may hand over: nothing at all, or a transcript
\* link with one hosted attachment and one inline fallback
HostedEntry ==
    entry_for(<<1, 1>>, 1, "ok", [raises |-> FALSE, status |-> 200, text |-> UrlBody], TRUE)

InlineEntry ==
    entry_for(<<1, 2>>, 1, "ok", [raises |-> TRUE, status |-> 0, text |-> <<>>], TRUE)

Evidence ==
    { [transcript_url |-> None, attachments |-> <<>>],
      [transcript_url |-> UrlBody, attachments |-> <<HostedEntry, InlineEntry>>] }

\* the users table of the paste runs: chat account 42 linked to a platform id
PasteUsers ==
    <<[steamid |-> D17, discordid |-> Chat42, ign |-> "Ace", total_points |-> 0]>>

\* every store query succeeds and the name lookup yields a display name
CalmEnvs ==
    { e \in Envs : ~e.failUsers /\ ~e.failInfr /\ ~e.failPoints
                   /\ e.fetch.display_name # "" }

\* ---------------------------------------------------------------- state

VARIABLES
    users,          \* the users table
    infractions,    \* the infractions table, in insertion order
    inserts,        \* INSERTs issued so far in this run
    call,           \* <<>> or <<the latest resolve_offender call and its result>>
    again,          \* <<>> or <<the result of repeating that call>>
    recorded,       \* "no" | "ok" | "failed": the infraction insert for that call
    history,        \* attachments per message of the ticket, oldest message first
    pos,            \* collect: index of the next attachment in iteration order
    results,        \* collect: the entries appended so far
    seen,           \* what happened to each processed attachment (observation)
    pc,             \* collect: "idle" | "running" | "done" | "failed"
    ap_call,        \* apply_points: <<>> or <<the arguments of the running call>>
    attempt,        \* apply_points: the loop index of the next POST
    posts,          \* apply_points: the outcome of each POST made, in order
    sleeps,         \* apply_points: the backoff waits made, in order
    api_result,     \* apply_points: <<>> or <<the returned dict>>
    line,           \* parse_offender_line: the line given
    parsed,         \* parse_offender_line: <<>> before the call, else <<result>>
    paste_pc,       \* log_from_resolve: "idle" | "prompt" | "lines" | "done" | "timeout"
                    \*                   | "no_channel" | "raised"
    lines,          \* log_from_resolve: the stripped non-empty lines of the paste
    POINTS_API_TOKEN, \* the credential the process was started with
    prepared,       \* log_from_resolve: runs of the evidence pipeline so far
    transcript_url, \* log_from_resolve: the transcript link, None when there is none
    attachments,    \* log_from_resolve: the entries collect_and_upload_attachments returned
    processed,      \* log_from_resolve: lines processed to completion
    log,            \* what happened to each line taken so far (observation)
    reported        \* log_from_resolve: the follow-up messages sent to the moderator

storeVars == <<users, infractions, inserts, call, again, recorded>>

collectVars == <<history, pos, results, seen, pc>>

pointsVars == <<ap_call, attempt, posts, sleeps, api_result>>

parseVars == <<line, parsed>>

pasteVars == <<paste_pc, lines, POINTS_API_TOKEN, prepared, transcript_url,
               attachments, processed, log, reported>>

vars == <<users, infractions, inserts, call, again, recorded,
          history, pos, results, seen, pc,
          ap_call, attempt, posts, sleeps, api_result,
          line, parsed,
          paste_pc, lines, POINTS_API_TOKEN, prepared, transcript_url,
          attachments, processed, log, reported>>

IdleCollect ==
    /\ history = <<>>
    /\ pos = 1
    /\ results = <<>>
    /\ seen = <<>>
    /\ pc = "idle"

IdlePoints ==
    /\ ap_call = <<>>
    /\ attempt = 0
    /\ posts = <<>>
    /\ sleeps = <<>>
    /\ api_result = <<>>

IdleParse ==
    /\ line = <<>>
    /\ parsed = <<>>

IdlePaste ==
    /\ paste_pc = "idle"
    /\ lines = <<>>
    /\ POINTS_API_TOKEN = Placeholder
    /\ prepared = 0
    /\ transcript_url = None
    /\ attachments = <<>>
    /\ processed = 0
    /\ log = <<>>
    /\ reported = <<>>

InitStore ==
    /\ users \in UsersTables
    /\ infractions \in InfractionTables
    /\ inserts = 0
    /\ call = <<>>
    /\ again = <<>>
    /\ recorded = "no"
    /\ IdleCollect
    /\ IdlePoints
    /\ IdleParse
    /\ IdlePaste

Resolve_recording(identifier, rule, env) ==
    /\ call' = <<[identifier |-> identifier, rule |-> rule, env |-> env,
                  off |-> resolve_offender(identifier, rule, users, infractions, env),
                  poff |-> parser_resolve_offender(identifier, rule, users,
                                                   infractions, env),
                  looked_up |-> identify(identifier, users, env, "").fetched]>>
    /\ again' = <<>>
    /\ recorded' = "no"
    /\ infractions' = Append(infractions,
            [steamid   |-> resolve_offender(identifier, rule, users,
                                            infractions, env).steamid,
             discordid |-> None, reason |-> rule])
    /\ UNCHANGED <<users, inserts, collectVars, pointsVars, parseVars, pasteVars>>

\* offender = await resolve_offender(bot, identifier, db_cursor, rule=rule)
Resolve(identifier, rule, env) ==
    /\ call' = <<[identifier |-> identifier, rule |-> rule, env |-> env,
                  off |-> resolve_offender(identifier, rule, users, infractions, env),
                  poff |-> parser_resolve_offender(identifier, rule, users,
                                                   infractions, env),
                  looked_up |-> identify(identifier, users, env, "").fetched]>>
    /\ again' = <<>>
    /\ recorded' = "no"
    /\ UNCHANGED <<users, infractions, inserts, collectVars, pointsVars, parseVars, pasteVars>>

\* the same call once more: same identifier, rule and lookup behaviour
ReResolve ==
    /\ call # <<>>
    /\ again = <<>>
    /\ again' = <<[off |-> resolve_offender(call[1].identifier, call[1].rule,
                                            users, infractions, call[1].env),
                   poff |-> parser_resolve_offender(call[1].identifier,
                                call[1].rule, users, infractions, call[1].env),
                   after_insert |-> recorded = "ok"]>>
    /\ UNCHANGED <<users, infractions, inserts, call, recorded, collectVars, pointsVars, parseVars, pasteVars>>

\* log_from_resolve, lines 681-686: record the infraction of the resolved line
RecordInfraction(notes, insert_ok) ==
    /\ call # <<>>
    /\ recorded = "no"
    /\ again = <<>>
    /\ inserts < MaxInserts
    /\ infractions' = _record_infraction(
            infractions, call[1].off.steamid, call[1].off.discord_id,
            reason_to_record(call[1].rule, notes, <<"0">>), insert_ok)
    /\ inserts' = inserts + 1
    /\ recorded' = IF insert_ok THEN "ok" ELSE "failed"
    /\ UNCHANGED <<users, call, again, collectVars, pointsVars, parseVars, pasteVars>>

ResolveCalm == \E id \in Identifiers, rule \in Rules, env \in CalmEnvs : Resolve(id, rule, env)

\* one call under any failure pattern (this specification follows a single
\* call and its repetition: the store never changes in it)
ResolveAny ==
    /\ call = <<>>
    /\ \E id \in Identifiers, rule \in Rules, env \in Envs : Resolve(id, rule, env)

Record == \E notes \in Notes, ok \in BOOLEAN : RecordInfraction(notes, ok)

\* the resolver and the store, every lookup succeeding
NextResolve == ResolveCalm \/ ReResolve \/ Record

SpecResolve == InitStore /\ [][NextResolve]_vars

\* the resolver under every failure pattern of its lookups
NextDegrade == ResolveAny \/ ReResolve

SpecDegrade == InitStore /\ [][NextDegrade]_vars

\* ---------------------------------------------------------------- collect_and_upload_attachments

InitCollect ==
    /\ users = <<>>
    /\ infractions = <<>>
    /\ inserts = 0
    /\ call = <<>>
    /\ again = <<>>
    /\ recorded = "no"
    /\ history \in Histories
    /\ pos = 1
    /\ results = <<>>
    /\ seen = <<>>
    /\ pc = "running"
    /\ IdlePoints
    /\ IdleParse
    /\ IdlePaste

Order == newest_first(history, Len(history))

\* one pass of the inner loop: skip, download, upload, fall back, append
ProcessAttachment(size, download, resp, to_file_ok) ==
    /\ pc = "running"
    /\ pos <= Len(Order)
    /\ LET att     == Order[pos]
           entry   == entry_for(att, size, download, resp, to_file_ok)
           reached == ~too_large(size) /\ download = "ok"
       IN  /\ results' = Append(results, entry)
           /\ seen' = Append(seen,
                  [att      |-> att,
                   size     |-> size,
                   download |-> IF too_large(size) THEN "none"
                                ELSE IF download = "ok" THEN "ok" ELSE "failed",
                   uploads  |-> IF reached THEN 1 ELSE 0,
                   accepted |-> reached /\ ~resp.raises /\ resp.status = 200
                                /\ startswith_http(resp.text),
                   to_file  |-> IF reached /\ ~Truthy(entry.url) /\ fits_inline(size)
                                THEN (IF to_file_ok THEN "ok" ELSE "raised")
                                ELSE "none"])
    /\ pos' = after_attachment(pos, download, Len(Order))
    /\ UNCHANGED <<storeVars, pointsVars, parseVars, pasteVars, history, pc>>

\* the history iterator raises while the next message is fetched: the outer
\* handler logs it and the entries gathered so far are returned
HistoryRaises ==
    /\ pc = "running"
    /\ IF pos > Len(Order) THEN TRUE ELSE Order[pos][2] = 1
    /\ pc' = "failed"
    /\ UNCHANGED <<storeVars, pointsVars, parseVars, pasteVars, history, pos, results, seen>>

\* the history is exhausted: return results
Return ==
    /\ pc = "running"
    /\ pos > Len(Order)
    /\ pc' = "done"
    /\ UNCHANGED <<storeVars, pointsVars, parseVars, pasteVars, history, pos, results, seen>>

Process ==
    \E size \in Sizes, download \in Downloads, resp \in UploadResponses,
       to_file_ok \in BOOLEAN :
        ProcessAttachment(size, download, resp, to_file_ok)

NextCollect == Process \/ HistoryRaises \/ Return

SpecCollect == InitCollect /\ [][NextCollect]_vars

\* ---------------------------------------------------------------- apply_points, one call

IdleStore ==
    /\ users = <<>>
    /\ infractions = <<>>
    /\ inserts = 0
    /\ call = <<>>
    /\ again = <<>>
    /\ recorded = "no"

InitPoints ==
    /\ IdleStore
    /\ IdleCollect
    /\ IdlePoints
    /\ IdleParse
    /\ IdlePaste

\* the call is made: lines 483-488 return at once or let it reach the loop
ApplyPoints(steamid, points, token) ==
    /\ ap_call = <<>>
    /\ ap_call' = <<[steamid |-> steamid, points |-> points, token |-> token]>>
    /\ api_result' = short_circuit(steamid, points, token)
    /\ UNCHANGED <<attempt, posts, sleeps>>
    /\ UNCHANGED <<storeVars, collectVars, parseVars, pasteVars>>

\* one pass of the loop: the POST, then return, or sleep and go on; the pass
\* that ends the loop falls through to the final "return failure"
Attempt(o) ==
    /\ ap_call # <<>>
    /\ api_result = <<>>
    /\ attempt < MaxAttempts
    /\ LET step == after_post(attempt, o)
       IN  /\ posts' = Append(posts, o)
           /\ sleeps' = IF step.sleep = <<>> THEN sleeps
                         ELSE Append(sleeps, [after |-> attempt,
                                              secs  |-> step.sleep[1]])
           /\ attempt' = IF step.ret = <<>> THEN attempt + 1 ELSE attempt
           /\ api_result' = IF step.ret # <<>> THEN step.ret
                             ELSE IF attempt + 1 >= MaxAttempts THEN <<Failure>>
                             ELSE <<>>
    /\ UNCHANGED ap_call
    /\ UNCHANGED <<storeVars, collectVars, parseVars, pasteVars>>

Call ==
    \E steamid \in SteamIds, points \in PointsValues, token \in Tokens :
        ApplyPoints(steamid, points, token)

Post == \E o \in AttemptOutcomes : Attempt(o)

NextPoints == Call \/ Post

SpecPoints == InitPoints /\ [][NextPoints]_vars

\* ---------------------------------------------------------------- parse_offender_line, one call

InitParse ==
    /\ IdleStore
    /\ IdleCollect
    /\ IdlePoints
    /\ line \in ParseLines
    /\ parsed = <<>>
    /\ IdlePaste

\* parsed = parse_offender_line(line)
Parse ==
    /\ parsed = <<>>
    /\ parsed' = <<parse_offender_line(line)>>
    /\ UNCHANGED line
    /\ UNCHANGED <<storeVars, collectVars, pointsVars, pasteVars>>

NextParse == Parse

SpecParse == InitParse /\ [][NextParse]_vars

\* ---------------------------------------------------------------- log_from_resolve, one paste

InitPaste ==
    /\ users = PasteUsers
    /\ infractions = <<>>
    /\ inserts = 0
    /\ call = <<>>
    /\ again = <<>>
    /\ recorded = "no"
    /\ IdleCollect
    /\ IdlePoints
    /\ IdleParse
    /\ paste_pc = "prompt"
    /\ lines = <<>>
    /\ POINTS_API_TOKEN \in Tokens
    /\ prepared = 0
    /\ transcript_url = None
    /\ attachments = <<>>
    /\ processed = 0
    /\ log = <<>>
    /\ reported = <<>>

\* wait_for raises asyncio.TimeoutError: the moderator is told, nothing else runs
Timeout ==
    /\ paste_pc = "prompt"
    /\ paste_pc' = "timeout"
    /\ reported' = Append(reported, [kind |-> "timeout", n |-> 0])
    /\ UNCHANGED <<lines, POINTS_API_TOKEN, prepared, transcript_url, attachments,
                   processed, log>>
    /\ UNCHANGED <<storeVars, collectVars, pointsVars, parseVars>>

\* lines 581-606: the paste arrives, its lines are kept, the evidence is
\* prepared, the watchtower channel is resolved
ReceivePaste(raw, evidence, channel_ok) ==
    /\ paste_pc = "prompt"
    /\ lines' = stripped_lines(raw)
    /\ prepared' = prepared + 1
    /\ transcript_url' = evidence.transcript_url
    /\ attachments' = evidence.attachments
    /\ paste_pc' = IF channel_ok THEN "lines" ELSE "no_channel"
    /\ reported' = IF channel_ok THEN reported
                   ELSE Append(reported, [kind |-> "no_channel", n |-> 0])
    /\ UNCHANGED <<POINTS_API_TOKEN, processed, log>>
    /\ UNCHANGED <<storeVars, collectVars, pointsVars, parseVars>>

posts_evidence_always(count) == TRUE

\* "if processed == 0"
posts_evidence(count) == count = 0

needs_warning_never(result) == FALSE

\* "if not api_result.get("success")"
needs_warning(result) == ~result.success

\* what is noted of a line that did not get to its thread
Dropped(why) ==
    [outcome |-> why, api |-> "none", warning |-> "none", insert |-> "none",
     evidence |-> "none", sent |-> <<>>]

\* what one pass of the loop may meet: the failure pattern of the resolver's
\* lookups, the thread ("found", "created" or "none"), whether the follow-up
\* to the moderator goes through, the answers of the scoring service, whether
\* the warning, the INSERT and the evidence messages go through

\* which of the evidence messages, by position, thread.send refuses
SendFailures == SUBSET {1, 2, 3}

\* each send of the evidence block has its own handler: the messages whose
\* send did not raise
delivered(msgs, down) ==
    LET F[i \in 0..Len(msgs)] ==
            IF i = 0 THEN <<>>
            ELSE IF i \in down THEN F[i - 1] ELSE Append(F[i - 1], msgs[i])
    IN  F[Len(msgs)]

\* what the world answers during one pass of the loop.  The follow-up is
\* only sent when there is no thread, and nothing is sent to a thread that
\* does not exist: the answers that are never asked for are held fixed.
LineIO ==
    { io \in [env : CalmEnvs, thread : {"found", "created", "none"},
              followup_ok : BOOLEAN, outs : ApiRuns, warn_ok : BOOLEAN,
              insert_ok : BOOLEAN, evidence_down : SendFailures] :
        IF io.thread = "none"
        THEN /\ io.outs = <<Ok200, Ok200, Ok200>>
             /\ io.warn_ok /\ io.insert_ok /\ io.evidence_down = {}
        ELSE io.followup_ok }

\* lines 608-720, one pass: parse, resolve, thread, embed, points, warning,
\* infraction, evidence, count.  The result says what is noted of the line
\* (entry), the infractions table afterwards, the INSERTs issued, whether the
\* line counts as processed, the follow-ups sent and whether the pass raised.
process_line(text, store, count, token, evidence, io) ==
    LET p    == parse_offender_line(text)
        skip == [entry |-> Dropped("unparsable"), infractions |-> store.infractions,
                 issued |-> 0, completed |-> 0, followups |-> <<>>,
                 raised |-> FALSE]
    IN  IF p = <<>> THEN skip
        ELSE IF io.thread = "none"
        THEN [skip EXCEPT
                 !.entry = Dropped("no_thread"),
                 !.followups = IF io.followup_ok
                               THEN <<[kind |-> "no_thread", n |-> 0]>> ELSE <<>>,
                 !.raised = ~io.followup_ok]
        ELSE LET who    == resolve_offender(p[1].identifier, p[1].rule,
                                            store.users, store.infractions, io.env)
                 result == apply_points(who.steamid, number(p[1].points),
                                        token, io.outs)
                 reason == reason_to_record(p[1].rule, p[1].notes, p[1].points)
                 due    == IF posts_evidence(count)
                           THEN evidence_messages(evidence.transcript_url,
                                                  evidence.attachments)
                           ELSE <<>>
             IN  [entry |->
                      [outcome  |-> "processed",
                       api      |-> IF result.success THEN "success" ELSE "failure",
                       warning  |-> IF ~needs_warning(result) THEN "none"
                                    ELSE IF io.warn_ok THEN "sent" ELSE "failed",
                       insert   |-> IF io.insert_ok THEN "ok" ELSE "failed",
                       evidence |-> IF ~posts_evidence(count) THEN "none"
                                    ELSE IF delivered(due, io.evidence_down) = due
                                    THEN "posted" ELSE "failed",
                       sent     |-> delivered(due, io.evidence_down)],
                  infractions |-> _record_infraction(store.infractions,
                                      who.steamid, who.discord_id, reason,
                                      io.insert_ok),
                  issued      |-> 1,
                  completed   |-> 1,
                  followups   |-> <<>>,
                  raised      |-> FALSE]

\* the loop takes the next line of the paste
ProcessLine(io) ==
    /\ paste_pc = "lines"
    /\ Len(log) < Len(lines)
    \* the evidence block is skipped after the first processed line
    /\ processed # 0 => io.evidence_down = {}
    /\ LET done == process_line(lines[Len(log) + 1],
                        [users |-> users, infractions |-> infractions],
                        processed, POINTS_API_TOKEN,
                        [transcript_url |-> transcript_url,
                         attachments |-> attachments], io)
       IN  /\ log' = Append(log, done.entry)
           /\ infractions' = done.infractions
           /\ inserts' = inserts + done.issued
           /\ processed' = processed + done.completed
           /\ reported' = reported \o done.followups
           /\ paste_pc' = IF done.raised THEN "raised" ELSE "lines"
    /\ UNCHANGED <<lines, POINTS_API_TOKEN, prepared, transcript_url, attachments>>
    /\ UNCHANGED <<users, call, again, recorded, collectVars, pointsVars, parseVars>>

\* line 722: every line was taken, the count is reported
Finish ==
    /\ paste_pc = "lines"
    /\ Len(log) = Len(lines)
    /\ paste_pc' = "done"
    /\ reported' = Append(reported, [kind |-> "logged", n |-> processed])
    /\ UNCHANGED <<lines, POINTS_API_TOKEN, prepared, transcript_url, attachments,
                   processed, log>>
    /\ UNCHANGED <<storeVars, collectVars, pointsVars, parseVars>>

Receive ==
    \E raw \in Pastes, evidence \in Evidence, channel_ok \in BOOLEAN :
        ReceivePaste(raw, evidence, channel_ok)

Line == \E io \in LineIO : ProcessLine(io)

NextPaste == Timeout \/ Receive \/ Line \/ Finish

SpecPaste == InitPaste /\ [][NextPaste]_vars

\* ---------------------------------------------------------------- claims: resolver

\* what the identifier text alone says about the platform id
DerivedSteam(identifier) ==
    LET d == only_digits(identifier)
    IN  IF Len(d) >= min_steamid_len THEN d ELSE UnknownSteam

\* the store was not written since the latest call was made
StoreAsAtCall == call # <<>> /\ recorded # "ok"

NonBlank(rule) == Truthy(rule) /\ Truthy(strip(rule))

\* C1: resolve_offender returns an Offender record under every pattern of
\* failing store queries and failing name lookup; when the users lookup fails
\* the in-game name is "Unknown" and the platform id is what the identifier
\* text itself gives (else "Unknown"); when the infraction query fails
\* repeat_offender is false.  Both implementations.
Degraded(c, off) ==
    /\ off.steamid # None
    /\ off.discord_name # ""
    /\ off.ign # ""
    /\ off.repeat_offender \in BOOLEAN
    /\ c.env.failUsers =>
           off.ign = "Unknown" /\ off.steamid = DerivedSteam(c.identifier)
    /\ c.env.failInfr => off.repeat_offender = FALSE

C1_DegradesToDefaults ==
    call # <<>> => Degraded(call[1], call[1].off) /\ Degraded(call[1], call[1].poff)

\* a mention of a linked and previously recorded account, every lookup failing
C1_Witness ==
    /\ call # <<>>
    /\ call[1].identifier = IdMention
    /\ call[1].rule = RuleSpam
    /\ call[1].env.failUsers /\ call[1].env.failInfr /\ call[1].env.failPoints
    /\ call[1].env.fetch.raises
    /\ users_by_discordid(users, Chat42) # <<>>
    /\ count_by_discordid_reason(infractions, Chat42, RuleSpam) > 0
    /\ call[1].off.steamid = UnknownSteam
    /\ call[1].off.repeat_offender = FALSE

\* number of infractions the store holds for a chat account id (none for no id)
StoredForChat(d, reason) ==
    IF d = None THEN 0 ELSE count_by_discordid_reason(infractions, d, reason)

\* C2: with a non-empty rule and no failing lookup, repeat_offender equals
\* "the store holds an infraction with the returned platform id and this rule"
\* when the returned platform id is known, and otherwise "the store holds an
\* infraction with the returned chat account id and this rule".
C2_RepeatByReturnedIdentity ==
    (StoreAsAtCall /\ NonBlank(call[1].rule)) =>
        LET off == call[1].off
            rule == call[1].rule
        IN  off.repeat_offender =
                IF off.steamid # UnknownSteam
                THEN count_by_steamid_reason(infractions, off.steamid, rule) > 0
                ELSE StoredForChat(off.discord_id, rule) > 0

\* C3: a call that returned repeat_offender = false, followed by the insert of
\* an infraction for the returned identity and the rule, followed by the same
\* call, returns repeat_offender = true.
C3_InsertFlipsRepeat ==
    (/\ call # <<>>
     /\ again # <<>>
     /\ again[1].after_insert
     /\ NonBlank(call[1].rule)
     /\ ~call[1].off.repeat_offender)
        => again[1].off.repeat_offender

PointsOf(row) == IF row = <<>> THEN 0 ELSE row[1].total_points

\* C4: with an empty or blank rule, repeat_offender is true iff the store holds
\* an infraction for the resolved identity or that identity's accumulated
\* points are positive; the identity is the platform id when known, the chat
\* account id otherwise.
C4_GenericRepeat ==
    (StoreAsAtCall /\ ~NonBlank(call[1].rule)) =>
        LET off == call[1].off
        IN  off.repeat_offender =
                IF off.steamid # UnknownSteam
                THEN \/ count_by_steamid(infractions, off.steamid) > 0
                     \/ PointsOf(users_by_steamid(users, off.steamid)) > 0
                ELSE /\ off.discord_id # None
                     /\ \/ count_by_discordid(infractions, off.discord_id) > 0
                        \/ PointsOf(users_by_discordid(users, off.discord_id)) > 0

\* the platform id of a chat account: the store's, else the identifier's digits
\* when there are enough of them, else "Unknown"
PlatformOfChat(chat, identifier) ==
    LET row == users_by_discordid(users, chat)
    IN  IF row # <<>> /\ row[1].steamid # None THEN row[1].steamid
        ELSE DerivedSteam(identifier)

\* the chat account id the store links to a platform id, None if absent
ChatOfPlatform(steamid) ==
    LET row == users_by_steamid(users, steamid)
    IN  IF row # <<>> THEN row[1].discordid ELSE None

\* C5: first match decides the identity: a mention gives the chat account id
\* of its digits; an all-digit identifier of 17 or more digits is the platform
\* id itself, with the chat account id the store links to it; a shorter
\* all-digit identifier gives its integer value as chat account id.  For a
\* mention and a short digit run the platform id is the store's for that chat
\* id, else the identifier's digits when there are at least 17, else "Unknown".
C5_IdentityByFirstMatch ==
    call # <<>> =>
        LET id  == call[1].identifier
            off == call[1].off
            d   == only_digits(id)
        IN  /\ mention_id(id) # None =>
                   /\ off.discord_id = int(d)
                   /\ off.steamid = PlatformOfChat(int(d), id)
            /\ (isdigit(id) /\ Len(id) >= min_steamid_len) =>
                   /\ off.steamid = id
                   /\ off.discord_id = ChatOfPlatform(id)
            /\ (isdigit(id) /\ Len(id) < min_steamid_len) =>
                   /\ off.discord_id = int(id)
                   /\ off.steamid = PlatformOfChat(int(id), id)

\* a long mention with no users row takes its own digits as platform id, and a
\* short digit run with leading zero resolves to chat account 42
C5_Witness ==
    /\ call # <<>>
    /\ \/ /\ call[1].identifier = IdMentionLong
          /\ users = <<>>
          /\ call[1].off.steamid = D17
          /\ call[1].off.discord_id = D17
       \/ /\ call[1].identifier = IdShort
          /\ call[1].off.discord_id = Chat42
          /\ call[1].off.steamid = D17

\* ---------------------------------------------------------------- claims: evidence

Returned == pc \in {"done", "failed"}

Entries == 1..Len(results)

\* C6: no returned entry has both url and fallback_file set.
C6_NeverUrlAndFallback ==
    \A k \in Entries :
        ~(results[k].url # None /\ results[k].fallback_file # None)

\* a returned list holding an entry with a url and an entry with a fallback
C6_Witness ==
    /\ Returned
    /\ \E k \in Entries : results[k].url # None
    /\ \E k \in Entries : results[k].fallback_file # None

\* C7: the returned list is in chronological order: the entry of an attachment
\* of an older message precedes the entry of an attachment of a newer message.
C7_ChronologicalOrder ==
    pc = "done" =>
        \A i, j \in Entries :
            results[i].filename[1] < results[j].filename[1] => i < j

RECURSIVE AttachmentsIn(_)
AttachmentsIn(h) ==
    IF h = <<>> THEN {}
    ELSE { <<Len(h), i>> : i \in 1..h[Len(h)] }
         \cup AttachmentsIn(SubSeq(h, 1, Len(h) - 1))

\* C10: an attachment whose download fails gets an entry with neither url nor
\* fallback and no upload attempt, and the attachments after it are still
\* processed: when the history was read to its end the result holds exactly
\* one entry per attachment of the history.
C10_FailedDownloadDoesNotAbort ==
    /\ \A k \in Entries :
           seen[k].download = "failed" =>
               /\ results[k].url = None
               /\ results[k].fallback_file = None
               /\ seen[k].uploads = 0
    /\ pc = "done" =>
           /\ Len(results) = Cardinality(AttachmentsIn(history))
           /\ \A a \in AttachmentsIn(history) :
                  Cardinality({ k \in Entries : results[k].filename = a }) = 1

\* a failed download followed by an attachment that was hosted
C10_Witness ==
    /\ pc = "done"
    /\ Len(results) >= 2
    /\ seen[1].download = "failed"
    /\ results[2].url # None

\* ---------------------------------------------------------------- claims: scoring

\* the call went past both early returns
ReachedLoop ==
    /\ ap_call # <<>>
    /\ ap_call[1].points > 0
    /\ ap_call[1].steamid # None
    /\ ap_call[1].steamid # UnknownSteam
    /\ ap_call[1].token \notin {"", "CHANGE_ME"}

\* the attempt raised (on the request or while the body was read)
Raised(o) == o.raises \in {"post", "text"}

\* the attempt ended as a transient failure
Transient(o) == Raised(o) \/ (o.status \in {429, 502, 503, 504})

\* the attempt got a response, read it, and its status is neither 200 nor transient
Terminal(o) == ~Raised(o) /\ o.status \notin {200, 429, 502, 503, 504}

Returned_(r) == api_result = <<r>>

C12_NothingToApply ==
    (/\ ap_call # <<>>
     /\ \/ ap_call[1].points <= 0
        \/ ap_call[1].steamid = UnknownSteam)
        => /\ Returned_([success |-> TRUE, response |-> None])
           /\ posts = <<>>
           /\ sleeps = <<>>

\* zero points for a known platform id with no credential configured
C12_Witness ==
    /\ ap_call # <<>>
    /\ ap_call[1].points = 0
    /\ ap_call[1].steamid = D17
    /\ ap_call[1].token = ""
    /\ Returned_([success |-> TRUE, response |-> None])

\* C13: with points > 0 and a known platform id but the token empty or the
\* placeholder, the call returns {success: false, response: null} at once
\* and makes no request.
C13_NoCredential ==
    (/\ ap_call # <<>>
     /\ ap_call[1].points > 0
     /\ ap_call[1].steamid # None
     /\ ap_call[1].steamid # UnknownSteam
     /\ ap_call[1].token \in {"", "CHANGE_ME"})
        => /\ Returned_([success |-> FALSE, response |-> None])
           /\ posts = <<>>
           /\ sleeps = <<>>

\* two points for a known platform id with the placeholder token
C13_Witness ==
    /\ ap_call # <<>>
    /\ ap_call[1].points = 2
    /\ ap_call[1].steamid = D17
    /\ ap_call[1].token = "CHANGE_ME"
    /\ Returned_([success |-> FALSE, response |-> None])

\* C14: every response with status 200 ends the call with success = true and
\* is the last POST; the response returned is the parsed JSON body, or null
\* when the body is not JSON.
C14_Every200Succeeds ==
    \A k \in 1..Len(posts) :
        (posts[k].raises # "post" /\ posts[k].status = 200) =>
            /\ k = Len(posts)
            /\ Returned_([success  |-> TRUE,
                          response |-> IF posts[k].raises = "no"
                                       THEN posts[k].data ELSE None])

\* ---------------------------------------------------------------- claims: parsing

AllDigits(t) == \A i \in 1..Len(t) : t[i] \in Digits

AllBlank(t) == \A i \in 1..Len(t) : t[i] = " "

\* t without the blanks around it
Trimmed(t) ==
    LET Inked == {i \in 1..Len(t) : t[i] # " "}
    IN  IF Inked = {} THEN <<>>
        ELSE SubSeq(t, CHOOSE i \in Inked : \A j \in Inked : i <= j,
                       CHOOSE i \in Inked : \A j \in Inked : i >= j)

\* positions of the pipes of the line, and the first two of them (past the
\* end when missing)
Pipes(t) == {i \in 1..Len(t) : t[i] = "|"}

FirstPipe(t) ==
    IF Pipes(t) = {} THEN Len(t) + 1
    ELSE CHOOSE i \in Pipes(t) : \A j \in Pipes(t) : i <= j

SecondPipe(t) ==
    LET Later == Pipes(t) \ {FirstPipe(t)}
    IN  IF Later = {} THEN Len(t) + 1
        ELSE CHOOSE i \in Later : \A j \in Later : i <= j

\* the three segments of the line: the text before the first pipe, between
\* the first two pipes, and everything after the second pipe
LeftSegment(t) == Trimmed(SubSeq(t, 1, FirstPipe(t) - 1))

SecondSegment(t) == Trimmed(SubSeq(t, FirstPipe(t) + 1, SecondPipe(t) - 1))

ThirdSegment(t) == Trimmed(SubSeq(t, SecondPipe(t) + 1, Len(t)))

\* the grammar's identifier: <@digits>, <@!digits>, or 1 to 30 digits
IsMention(t) ==
    /\ Len(t) >= 4
    /\ t[1] = "<" /\ t[2] = "@" /\ t[Len(t)] = ">"
    /\ LET ds == SubSeq(t, IF t[3] = "!" THEN 4 ELSE 3, Len(t) - 1)
       IN  ds # <<>> /\ AllDigits(ds)

IsDigitToken(t) == Len(t) \in 1..30 /\ AllDigits(t)

StartsWithIdentifier(left) ==
    \E a \in 1..Len(left) :
        IsMention(SubSeq(left, 1, a)) \/ IsDigitToken(SubSeq(left, 1, a))

\* id is the identifier token left starts with: a mention, or the digit run
\* up to its end or its 30th digit
IsMatchedToken(left, id) ==
    LET a == Len(id)
    IN  /\ a <= Len(left)
        /\ id = SubSeq(left, 1, a)
        /\ \/ IsMention(id)
           \/ /\ IsDigitToken(id)
              /\ (a = 30 \/ a = Len(left) \/ left[a + 1] \notin Digits)

\* after the identifier: blanks, the digit run that follows (as long as it
\* goes) or nothing, blanks, the rule
RestIs(rest, points, rule) ==
    \E b \in 0..Len(rest) :
        /\ AllBlank(SubSeq(rest, 1, b))
        /\ (b = Len(rest) \/ rest[b + 1] # " ")
        /\ \E c \in b..Len(rest) :
               /\ AllDigits(SubSeq(rest, b + 1, c))
               /\ (c = Len(rest) \/ rest[c + 1] \notin Digits)
               /\ points = IF c = b THEN <<"0">> ELSE SubSeq(rest, b + 1, c)
               /\ rule = Trimmed(SubSeq(rest, c + 1, Len(rest)))

\* C15: for a line whose left segment (the text before the first pipe)
\* matches the grammar, the record returned has identifier = the matched
\* mention or digit-run token, points = the digit run that follows it or "0",
\* rule = the trimmed remainder of the left segment, mod_notes and notes = the
\* trimmed second and third segments ("" when missing), the third segment
\* keeping any further pipes.
C15_RecordOfMatchedLine ==
    (parsed # <<>> /\ StartsWithIdentifier(LeftSegment(line))) =>
        /\ parsed[1] # <<>>
        /\ LET r    == parsed[1][1]
               left == LeftSegment(line)
           IN  /\ IsMatchedToken(left, r.identifier)
               /\ RestIs(SubSeq(left, Len(r.identifier) + 1, Len(left)),
                         r.points, r.rule)
               /\ r.mod_notes = SecondSegment(line)
               /\ r.notes = ThirdSegment(line)

\* a mention with points, a rule and three pipes: the notes keep the last pipe
C15_Witness ==
    /\ parsed # <<>>
    /\ parsed[1] # <<>>
    /\ parsed[1][1].identifier = <<"<", "@", "!", "4", "2", ">">>
    /\ parsed[1][1].points = <<"0", "5">>
    /\ parsed[1][1].rule = <<"a", " ", "b">>
    /\ parsed[1][1].mod_notes = <<"m">>
    /\ parsed[1][1].notes = <<"n", "|", "o">>

\* C16: the result is null for the empty line, for a line of blanks, and for
\* a line whose left segment does not start with a mention or a run of 1 to
\* 30 digits; in every other case it is a record.
C16_NullIffNoIdentifier ==
    parsed # <<>> =>
        /\ (line = <<>> \/ AllBlank(line)) => parsed[1] = <<>>
        /\ parsed[1] = <<>> <=> ~StartsWithIdentifier(LeftSegment(line))

\* a mention without its closing bracket, followed by points and a rule
C16_Witness ==
    /\ parsed # <<>>
    /\ parsed[1] = <<>>
    /\ Len(line) > 6
    /\ SubSeq(line, 1, 4) = <<"<", "@", "4", "2">>
    /\ line[5] # ">"

\* ---------------------------------------------------------------- claims: name lookup, idempotence

\* C17: when a name lookup was attempted and it failed, the returned
\* display name is "Unresolved User"; the returned display name is "Unknown"
\* only when no name lookup was attempted.  Both implementations.
C17_UnresolvedOnFailedLookup ==
    call # <<>> =>
        \A off \in {call[1].off, call[1].poff} :
            /\ (call[1].looked_up /\ call[1].env.fetch.raises) =>
                   off.discord_name = "Unresolved User"
            /\ off.discord_name = "Unknown" => ~call[1].looked_up

Taken == 1..Len(log)

\* the lines processed to completion, and the first of them
Completed == {k \in Taken : log[k].outcome = "processed"}

FirstCompleted == CHOOSE k \in Completed : \A j \in Completed : k <= j

\* the paste arrived: the handler went past the wait
Arrived == paste_pc \in {"lines", "done", "no_channel", "raised"}

InLoop == paste_pc \in {"lines", "done", "raised"}

Inserted == {k \in Taken : log[k].insert = "ok"}

LineOfRow(r) ==
    CHOOSE k \in Inserted : Cardinality({j \in Inserted : j <= k}) = r

\* the reason recorded for a parsed line: the rule, else the public notes,
\* else "Points:" and the points
ReasonOf(p) ==
    IF p.rule # <<>> THEN p.rule
    ELSE IF p.notes # <<>> THEN p.notes
    ELSE <<"P", "o", "i", "n", "t", "s", ":">> \o p.points

\* one more row at the end, the rows before untouched
Appended(before, after) ==
    /\ Len(after) = Len(before) + 1
    /\ SubSeq(after, 1, Len(before)) = before

\* C22: one INSERT is issued per line that parsed and obtained a thread and
\* none for any other line; the reason of the row is the rule, else the
\* public notes, else the points placeholder; the count reported to the
\* moderator is the number of INSERTs issued; rows are only ever appended.
C22_OneInsertPerProcessedLine ==
    /\ [](/\ inserts = Cardinality(Completed)
          /\ Completed = {k \in Taken : /\ parse_offender_line(lines[k]) # <<>>
                                        /\ log[k].outcome # "no_thread"}
          /\ Len(infractions) = Cardinality(Inserted)
          /\ \A r \in 1..Len(infractions) :
                 infractions[r].reason
                    = ReasonOf(parse_offender_line(lines[LineOfRow(r)])[1])
          /\ \A i \in 1..Len(reported) :
                 reported[i].kind = "logged" =>
                     /\ i = Len(reported)
                     /\ reported[i].n = inserts)
    /\ [][/\ inserts' \in {inserts, inserts + 1}
          /\ inserts' = inserts + 1 <=>
                 /\ Len(log') = Len(log) + 1
                 /\ log'[Len(log')].outcome = "processed"
          /\ \/ infractions' = infractions
             \/ /\ Appended(infractions, infractions')
                /\ inserts' = inserts + 1]_vars

\* a paste of two lines, both processed: two INSERTs, the rows carry the
\* public note and the placeholder, and "Logged 2" is reported
C22_Witness ==
    /\ paste_pc = "done"
    /\ lines = <<LineNoted, LineBare>>
    /\ inserts = 2
    /\ Len(infractions) = 2
    /\ infractions[1].reason = <<"n">>
    /\ infractions[2].reason = <<"P", "o", "i", "n", "t", "s", ":", "0">>
    /\ reported = <<[kind |-> "logged", n |-> 2]>>

\* ---------------------------------------------------------------- claims: lookups, backoff, agreement

\* a digit run shorter than a platform id, taken as a chat account id
ShortNumeric(identifier) ==
    LET t == strip(identifier)
    IN  /\ t # <<>>
        /\ \A i \in 1..Len(t) : t[i] \in Digits
        /\ Len(t) < min_steamid_len

\* the users row behind the identity a call returned
RowOf(off) ==
    IF off.steamid # UnknownSteam THEN users_by_steamid(users, off.steamid)
    ELSE IF off.discord_id # None THEN users_by_discordid(users, off.discord_id)
    ELSE <<>>

\* C23: a failing store lookup skips only itself.  For a short digit run,
\* when the users lookup by chat id raises, the name lookup is attempted and
\* the name returned is the one the mention branch returns; with an empty
\* rule, when the infraction count raises and the points query does not, an
\* offender whose users row holds points is flagged.
C23_FailedLookupSkipsOnlyItself ==
    call # <<>> =>
        /\ (ShortNumeric(call[1].identifier) /\ call[1].env.failUsers) =>
               /\ call[1].looked_up
               /\ call[1].off.discord_name = _safe_fetch_user_name(call[1].env.fetch)
               /\ call[1].poff.discord_name = parser_fetch_user_name(call[1].env.fetch)
        /\ \A off \in {call[1].off, call[1].poff} :
               (/\ strip(call[1].rule) = <<>>
                /\ call[1].env.failInfr /\ ~call[1].env.failPoints
                /\ RowOf(off) # <<>>
                /\ RowOf(off)[1].total_points > 0)
                   => off.repeat_offender

\* C24: every transient failure is followed by a wait of 2^attempt and then
\* by a retry: each wait is the backoff of a transient attempt, a call that
\* has returned has waited once per retry it made (at most twice), and
\* nothing is waited for after the last attempt.
C24_OneWaitPerRetry ==
    ReachedLoop =>
        /\ \A i \in 1..Len(sleeps) :
               /\ sleeps[i].after = i - 1
               /\ sleeps[i].secs = 2 ^ (i - 1)
               /\ Transient(posts[i])
        /\ \A k \in 1..Len(posts) :
               (Transient(posts[k]) /\ k < MaxAttempts) => Len(sleeps) >= k
        /\ Len(sleeps) <= MaxAttempts - 1
        /\ api_result # <<>> => Len(sleeps) = Len(posts) - 1

\* C25: for every identifier, rule, store, store-failure pattern and
\* name-lookup outcome, parser.resolve_offender (given a name-lookup callable)
\* and watchtower_logger.resolve_offender return the same record, on the
\* first call and on its repetition.
C25_ImplementationsAgree ==
    /\ call # <<>> => call[1].poff = call[1].off
    /\ again # <<>> => again[1].poff = again[1].off

====
